---- MODULE Spec2Model ----
(***************************************************************************)
(* A model of the NetworkMap component (src/src/components/NetworkMap.tsx) *)
(* of geo-tracer-mapper: the token form, the Trace Route control, the      *)
(* paced hop reveal of executeTraceroute, the map overlay written by       *)
(* addNetworkPath / clearNetworkPath and the idle rotation loop.           *)
(*                                                                         *)
(* Units.  Coordinates are integers in 1e-4 degree (40.7128 -> 407128),    *)
(* latencies are integers in 0.1 ms (19.9 ms -> 199, 20.0 ms -> 200), and  *)
(* the camera centre is counted in steps of 0.1 degree.                    *)
(*                                                                         *)
(* React.  A state setter called from a click or change handler is         *)
(* committed and rendered before the next event is dispatched, so the      *)
(* committed state and the rendered state coincide between events.  What a *)
(* render does NOT track is the ref map.current: sawMap records whether    *)
(* the last render found map.current set (the JSX reads it at lines 228,   *)
(* 242 and 267), and it is refreshed only when some state setter causes a  *)
(* render.                                                                 *)
(*                                                                         *)
(* Mapbox GL JS.  Map.addSource throws when a source with the same id      *)
(* exists; Map.fitBounds with an empty LngLatBounds has no valid box, its  *)
(* outcome (it throws or it returns) is left open.  A map's style loads    *)
(* after the map is constructed ('style.load', line 63), if it loads at    *)
(* all; until then Map.addSource throws "Style is not done loading".       *)
(***************************************************************************)
EXTENDS Integers, Sequences, FiniteSets, TLC

\* ------------------------------------------------------------------ bounds

\* Longest hop sequence handed to the overlay functions in SpecDraw.
MaxHops == 3
\* Number of distinct sample hops the hop sequences of SpecDraw are built of.
PoolSize == 4
\* Number of executeTraceroute invocations one behaviour starts.
MaxStarts == 2
\* Number of executeTraceroute invocations in flight at once (SpecReentrant).
MaxTraces == 2
\* Number of times initializeMap constructs a map in one behaviour.
MaxMaps == 2
\* Number of rotation ticks that advance the camera in one behaviour.
MaxLng == 3

\* --------------------------------------------------------------- constants

\* hop.latency < 20 and hop.latency < 100, in 0.1 ms.
GoodBelow == 200
WarningBelow == 1000

\* ------------------------------------------------------------------- hops

Hosts == {"", " ", "google.com", "example.com"}
Tokens == {"", " ", "pk.token"}

\* String.prototype.trim on the strings of Hosts and Tokens: the only one
\* with leading or trailing white space is " ".
Trim(s) == IF s = " " THEN "" ELSE s

\* mockTraceroute(target): the four fixed hops, the last one named target.
mockTraceroute(target) ==
    << [id |-> 1, ip |-> "192.168.1.1", hostname |-> "local-gateway",
        latitude |-> 407128, longitude |-> -740060, latency |-> 12,
        country |-> "USA", city |-> "New York"],
       [id |-> 2, ip |-> "10.0.0.1", hostname |-> "isp-router-1",
        latitude |-> 407589, longitude |-> -739851, latency |-> 125,
        country |-> "USA", city |-> "New York"],
       [id |-> 3, ip |-> "72.14.215.85", hostname |-> "google-edge",
        latitude |-> 374419, longitude |-> -1221430, latency |-> 453,
        country |-> "USA", city |-> "Palo Alto"],
       [id |-> 4, ip |-> "142.250.191.14", hostname |-> target,
        latitude |-> 374419, longitude |-> -1221430, latency |-> 478,
        country |-> "USA", city |-> "Palo Alto"] >>

\* Sample latencies around the two band edges: 19.9, 20.0, 99.9, 100.0 ms,
\* then 1.2 ms and values above 100 ms.
SampleLatency(k) ==
    CASE k = 1 -> 199
      [] k = 2 -> 200
      [] k = 3 -> 999
      [] k = 4 -> 1000
      [] k = 5 -> 12
      [] OTHER -> 1000 + k

\* The k-th sample hop (a NetworkHop), at a position of its own.
SampleHop(k) ==
    [id |-> k, ip |-> "10.0.0.1", hostname |-> "sample",
     latitude |-> 100000 * k, longitude |-> -200000 * k,
     latency |-> SampleLatency(k), country |-> "USA", city |-> "New York"]

RECURSIVE SeqsUpTo(_, _)
SeqsUpTo(S, n) ==
    IF n = 0 THEN {<<>>}
    ELSE LET shorter == SeqsUpTo(S, n - 1)
         IN  shorter \cup {Append(s, x) : s \in shorter, x \in S}

\* The hop sequences SpecDraw draws its input from: every sequence of at most
\* MaxHops sample hops, numbered 1, 2, ... in sequence order.
HopSeqs ==
    { [i \in 1..Len(s) |-> [SampleHop(s[i]) EXCEPT !.id = i]] :
        s \in SeqsUpTo(1..PoolSize, MaxHops) }

\* ---------------------------------------------------------- pure functions

\* getLatencyColor with the band edges on the wrong side (<= for <).
getLatencyColorInclusive(latency) ==
    IF latency <= GoodBelow THEN "text-latency-good"
    ELSE IF latency <= WarningBelow THEN "text-latency-warning"
    ELSE "text-latency-error"

\* getLatencyColor(latency), lines 217-221.
getLatencyColor(latency) ==
    IF latency < GoodBelow THEN "text-latency-good"
    ELSE IF latency < WarningBelow THEN "text-latency-warning"
    ELSE "text-latency-error"

\* The popup's latency colour, line 140.
PopupLatencyColor(latency) ==
    IF latency < GoodBelow THEN "#00ff00"
    ELSE IF latency < WarningBelow THEN "#ffff00"
    ELSE "#ff0040"

\* MarkerColor with the two tests in the other order.
MarkerColorDestinationFirst(index, length) ==
    IF index = length - 1 THEN "#ff0040"
    ELSE IF index = 0 THEN "#00ff00"
    ELSE "#00ffff"

\* The marker's background colour, lines 125 and 127 (index is 0-based).
MarkerColor(index, length) ==
    IF index = 0 THEN "#00ff00"
    ELSE IF index = length - 1 THEN "#ff0040"
    ELSE "#00ffff"

\* Coordinates with the pair in (latitude, longitude) order.
CoordinatesLatLng(hopData) ==
    [i \in 1..Len(hopData) |-> <<hopData[i].latitude, hopData[i].longitude>>]

\* hopData.map(hop => [hop.longitude, hop.latitude]), line 86.
Coordinates(hopData) ==
    [i \in 1..Len(hopData) |-> <<hopData[i].longitude, hopData[i].latitude>>]

\* The box LngLatBounds.extend builds over the coordinates, lines 149-150.
MinOf(S) == CHOOSE x \in S : \A y \in S : x <= y
MaxOf(S) == CHOOSE x \in S : \A y \in S : x >= y
Bounds(coordinates) ==
    IF Len(coordinates) = 0
    THEN [empty |-> TRUE, west |-> 0, south |-> 0, east |-> 0, north |-> 0]
    ELSE LET lngs == {coordinates[i][1] : i \in 1..Len(coordinates)}
             lats == {coordinates[i][2] : i \in 1..Len(coordinates)}
         IN  [empty |-> FALSE, west |-> MinOf(lngs), south |-> MinOf(lats),
              east |-> MaxOf(lngs), north |-> MaxOf(lats)]

\* One marker element with its popup, lines 119-145 (index is 0-based).
Marker(hop, index, length) ==
    [className |-> "hop-marker",
     background |-> MarkerColor(index, length),
     lngLat |-> <<hop.longitude, hop.latitude>>,
     popup |-> [id |-> hop.id, hostname |-> hop.hostname, ip |-> hop.ip,
                city |-> hop.city, country |-> hop.country,
                latency |-> hop.latency,
                color |-> PopupLatencyColor(hop.latency)]]

\* ------------------------------------------------------------------ state

VARIABLES
    mapboxToken,        \* the prop: TRUE when the parent passes a token
    mapCurrent,         \* map.current: 0 is null, n is the n-th map built
    accessToken,        \* mapboxgl.accessToken
    sawMap,             \* map.current was set when the component last rendered
    currentTokenInput,  \* React state
    targetHost,         \* React state
    isTracing,          \* React state
    hops,               \* React state
    traces,             \* executeTraceroute invocations awaiting a timer
    rafQueue,           \* pending rotateCamera frames: the isTracing each captured
    surface,            \* the current map: path source, line layer, markers, camera
    lastToast,          \* title of the last toast
    lastError,          \* the last exception no handler caught
    nStarted,           \* executeTraceroute invocations so far
    completed,          \* history: hop list of the last trace that completed
    input,              \* what the Hop Data Source returns
    call                \* history: the last direct call of an overlay function

vars == << mapboxToken, mapCurrent, accessToken, sawMap, currentTokenInput,
           targetHost, isTracing, hops, traces, rafQueue, surface, lastToast,
           lastError, nStarted, completed, input, call >>

NoSource == [present |-> FALSE, coordinates |-> <<>>]
NoBounds == [empty |-> TRUE, west |-> 0, south |-> 0, east |-> 0, north |-> 0]

\* new mapboxgl.Map({... center: [0, 20] ...}), lines 45-52: no path source,
\* no line layer; the .hop-marker elements of the document are not touched.
NewMap(markers) ==
    [source |-> NoSource, layer |-> FALSE, markers |-> markers,
     centerLng |-> 0, fitCalls |-> 0, fitBounds |-> NoBounds,
     styleLoaded |-> FALSE]
\* centerLng: what the rotation has added to the centre's longitude, in steps
\* of 0.1 degree; fitCalls, fitBounds: the fitBounds calls and the last box;
\* styleLoaded: the map has fired 'style.load'.

NoCompleted == [any |-> FALSE, hops |-> <<>>]
NoCall == [op |-> "none", n |-> 0, threw |-> FALSE]

\* The Hop Data Source: the component's mockTraceroute, or (SpecDraw) a
\* source that returns the hop sequence under test, or (SpecFailing) a
\* source whose call throws.
MockSource == [mock |-> TRUE, fails |-> FALSE, hops |-> <<>>]
FetchHops(target) == IF input.mock THEN mockTraceroute(target) ELSE input.hops

\* ------------------------------------------------------- overlay functions

\* clearNetworkPath without the removal of the markers.
clearNetworkPathKeepsMarkers(m, s) ==
    IF m = 0 THEN s
    ELSE [s EXCEPT !.layer = IF s.layer THEN FALSE ELSE s.layer,
                   !.source = IF s.source.present THEN NoSource ELSE s.source]

\* clearNetworkPath without the removal of the source.
clearNetworkPathKeepsSource(m, s) ==
    IF m = 0 THEN s
    ELSE [s EXCEPT !.layer = IF s.layer THEN FALSE ELSE s.layer,
                   !.markers = <<>>]

\* clearNetworkPath, lines 154-168, on map handle m and surface s.
clearNetworkPath(m, s) ==
    IF m = 0 THEN s
    ELSE [s EXCEPT !.layer = IF s.layer THEN FALSE ELSE s.layer,
                   !.source = IF s.source.present THEN NoSource ELSE s.source,
                   !.markers = <<>>]

\* addNetworkPath(hopData), lines 82-152, on map handle m and surface s:
\* the surface it leaves and the exception it ends with ("none": it returns).
\* fitThrows: whether fitBounds throws on an empty box.
addNetworkPath(m, s, hopData, fitThrows) ==
    IF m = 0 THEN [surface |-> s, error |-> "none"]
    ELSE IF ~s.styleLoaded
    THEN [surface |-> s, error |-> "Style is not done loading"]
    ELSE IF s.source.present
    THEN [surface |-> s, error |-> "Source already exists"]
    ELSE LET coordinates == Coordinates(hopData)
             drawn == [s EXCEPT
                 !.source = [present |-> TRUE, coordinates |-> coordinates],
                 !.layer = TRUE,
                 !.markers = s.markers \o
                     [i \in 1..Len(hopData) |->
                         Marker(hopData[i], i - 1, Len(hopData))],
                 !.fitCalls = s.fitCalls + 1,
                 !.fitBounds = Bounds(coordinates)]
         IN  [surface |-> drawn,
              error |-> IF Len(hopData) = 0 /\ fitThrows
                        THEN "Invalid bounds" ELSE "none"]

\* The outcomes fitBounds can have for hopData.
FitOutcomes(hopData) == IF Len(hopData) = 0 THEN BOOLEAN ELSE {FALSE}

\* ------------------------------------------------------------- what is shown

\* The token form is rendered, line 228.
TokenFormShown == ~mapboxToken /\ ~sawMap
\* The target input and the Trace Route button are rendered, line 242.
TraceControlsShown == mapboxToken \/ sawMap
\* The button's disabled attribute without isTracing.
TraceButtonDisabledBlankOnly == Trim(targetHost) = ""
\* disabled={isTracing || !targetHost.trim()}, line 254.
TraceButtonDisabled == isTracing \/ Trim(targetHost) = ""
\* disabled={isTracing}, line 249.
TargetInputDisabled == isTracing
\* mapContainer.current, set while the component is mounted (line 266).
mapContainer == TRUE
\* The readiness test made on the container instead of the map.
SurfaceNotReadyByContainer == ~mapContainer
\* if (!map.current), line 171.
SurfaceNotReady == mapCurrent = 0
\* if (!map.current || isTracing) return, line 73: isTracing is the value the
\* closure captured when initializeMap ran.
RotationStops(m, captured) == m = 0 \/ captured

\* The camera move with the markers dropped.
rotateCameraDropsMarkers(s) ==
    [s EXCEPT !.centerLng = @ + 1, !.markers = <<>>]

\* center.lng += 0.1; easeTo({ center }), lines 74-76.
rotateCamera(s) == [s EXCEPT !.centerLng = @ + 1]

\* ------------------------------------------------------------------ actions

Init ==
    /\ mapboxToken \in BOOLEAN
    /\ mapCurrent = 0
    /\ accessToken = ""
    /\ sawMap = FALSE
    /\ currentTokenInput = ""
    /\ targetHost = "google.com"
    /\ isTracing = FALSE
    /\ hops = <<>>
    /\ traces = <<>>
    /\ rafQueue = <<>>
    /\ surface = NewMap(<<>>)
    /\ lastToast = "none"
    /\ lastError = "none"
    /\ nStarted = 0
    /\ completed = NoCompleted
    /\ input = MockSource
    /\ call = NoCall

\* onChange of the token input, line 233; the state change renders.
TypeToken(v) ==
    /\ TokenFormShown
    /\ v # currentTokenInput
    /\ currentTokenInput' = v
    /\ sawMap' = (mapCurrent # 0)
    /\ UNCHANGED << mapboxToken, mapCurrent, accessToken, targetHost, isTracing,
                    hops, traces, rafQueue, surface, lastToast, lastError,
                    nStarted, completed, input, call >>

\* initializeMap(accessToken), lines 40-80, with the first, synchronous run
\* of rotateCamera (line 79): no state setter is called, nothing renders.
initializeMap(token) ==
    IF ~mapContainer
    THEN UNCHANGED << accessToken, mapCurrent, surface, rafQueue >>
    ELSE /\ accessToken' = token
         /\ mapCurrent' = mapCurrent + 1
         /\ IF RotationStops(mapCurrent', isTracing)
            THEN /\ surface' = NewMap(surface.markers)
                 /\ rafQueue' = rafQueue
            ELSE /\ surface' = rotateCamera(NewMap(surface.markers))
                 /\ rafQueue' = Append(rafQueue, isTracing)

\* handleTokenSubmit, lines 207-215: the Initialize Map button.
ClickInitialize ==
    /\ TokenFormShown
    /\ mapCurrent < MaxMaps
    /\ IF Trim(currentTokenInput) # ""
       THEN /\ initializeMap(Trim(currentTokenInput))
            /\ lastToast' = "Map initialized"
       ELSE UNCHANGED << accessToken, mapCurrent, surface, rafQueue, lastToast >>
    /\ UNCHANGED << mapboxToken, sawMap, currentTokenInput, targetHost,
                    isTracing, hops, traces, lastError, nStarted, completed,
                    input, call >>

\* The current map fires 'style.load', lines 63-69 (the fog is not modelled).
StyleLoad ==
    /\ mapCurrent # 0
    /\ ~surface.styleLoaded
    /\ surface' = [surface EXCEPT !.styleLoaded = TRUE]
    /\ UNCHANGED << mapboxToken, mapCurrent, accessToken, sawMap,
                    currentTokenInput, targetHost, isTracing, hops, traces,
                    rafQueue, lastToast, lastError, nStarted, completed,
                    input, call >>

\* One animation frame runs a pending rotateCamera, lines 72-78.
RotateTick(k) ==
    /\ k \in 1..Len(rafQueue)
    /\ surface.centerLng < MaxLng
    /\ LET captured == rafQueue[k]
           rest == [i \in 1..(Len(rafQueue) - 1) |->
                       IF i < k THEN rafQueue[i] ELSE rafQueue[i + 1]]
       IN  IF RotationStops(mapCurrent, captured)
           THEN /\ rafQueue' = rest
                /\ UNCHANGED surface
           ELSE /\ surface' = rotateCamera(surface)
                /\ rafQueue' = Append(rest, captured)
    /\ UNCHANGED << mapboxToken, mapCurrent, accessToken, sawMap,
                    currentTokenInput, targetHost, isTracing, hops, traces,
                    lastToast, lastError, nStarted, completed, input, call >>

\* onChange of the target input, line 247; the state change renders.
TypeTarget(v) ==
    /\ TraceControlsShown
    /\ ~TargetInputDisabled
    /\ v # targetHost
    /\ targetHost' = v
    /\ sawMap' = (mapCurrent # 0)
    /\ UNCHANGED << mapboxToken, mapCurrent, accessToken, currentTokenInput,
                    isTracing, hops, traces, rafQueue, surface, lastToast,
                    lastError, nStarted, completed, input, call >>

\* Lines 197-204 with the call of the synchronizer left out.
FinishWithoutDraw(mockHops, s1, hops1, tracing1, toast1, fitThrows) ==
    /\ surface' = s1
    /\ hops' = mockHops
    /\ isTracing' = FALSE
    /\ lastToast' = "Traceroute complete"
    /\ completed' = [any |-> TRUE, hops |-> mockHops]
    /\ lastError' = lastError

\* Lines 197-204: the synchronizer is called with the full list; when it
\* returns the list is published, the status cleared and the toast raised;
\* when it throws the async function ends there.  s1, hops1, tracing1 and
\* toast1 are the values the invocation has reached before line 197.
Finish(mockHops, s1, hops1, tracing1, toast1, fitThrows) ==
    LET r == addNetworkPath(mapCurrent, s1, mockHops, fitThrows)
    IN  /\ surface' = r.surface
        /\ IF r.error = "none"
           THEN /\ hops' = mockHops
                /\ isTracing' = FALSE
                /\ lastToast' = "Traceroute complete"
                /\ completed' = [any |-> TRUE, hops |-> mockHops]
                /\ lastError' = lastError
           ELSE /\ hops' = hops1
                /\ isTracing' = tracing1
                /\ lastToast' = toast1
                /\ completed' = completed
                /\ lastError' = r.error

\* executeTraceroute up to its first await, lines 170-193 (and to its end when
\* the hop sequence is empty); the state change renders.
executeTraceroute ==
    IF SurfaceNotReady
    THEN /\ lastToast' = "Map not ready"
         /\ UNCHANGED << isTracing, hops, traces, surface, lastError, nStarted,
                         completed, sawMap >>
    ELSE LET mockHops == FetchHops(targetHost)
             cleared == clearNetworkPath(mapCurrent, surface)
         IN  /\ nStarted' = nStarted + 1
             /\ sawMap' = (mapCurrent # 0)
             /\ IF input.fails
                THEN \* the call of line 189 throws: lines 190-204 do not run
                     /\ isTracing' = TRUE
                     /\ surface' = cleared
                     /\ lastToast' = "Tracing route..."
                     /\ lastError' = "Hop Data Source failed"
                     /\ UNCHANGED << hops, traces, completed >>
                ELSE IF Len(mockHops) = 0
                THEN /\ traces' = traces
                     /\ \E fitThrows \in FitOutcomes(mockHops) :
                            Finish(mockHops, cleared, <<>>, TRUE,
                                   "Tracing route...", fitThrows)
                ELSE /\ traces' = Append(traces,
                            [target |-> targetHost, mockHops |-> mockHops, i |-> 0])
                     /\ isTracing' = TRUE
                     /\ surface' = cleared
                     /\ hops' = <<>>
                     /\ lastToast' = "Tracing route..."
                     /\ UNCHANGED << lastError, completed >>

\* onClick of the Trace Route button, line 253.
ClickTrace ==
    /\ TraceControlsShown
    /\ ~TraceButtonDisabled
    /\ nStarted < MaxStarts
    /\ executeTraceroute
    /\ UNCHANGED << mapboxToken, mapCurrent, accessToken, currentTokenInput,
                    targetHost, rafQueue, input, call >>

\* The updater with the new hop put first.
RevealFirst(prev, hop) == << hop >> \o prev

\* prev => [...prev, mockHops[i]], line 194.
Reveal(prev, hop) == Append(prev, hop)

\* The timer of line 193 fires for invocation k: lines 194-195, and lines
\* 197-204 after the last hop.  Every invocation waits 1000 ms per hop and
\* timers of equal delay fire in the order they were set, so an invocation
\* started later never overtakes an earlier one.
TimerFires(k) ==
    /\ k \in 1..Len(traces)
    /\ \A j \in 1..(k - 1) : traces[j].i > traces[k].i
    /\ LET t == traces[k]
           hops1 == Reveal(hops, t.mockHops[t.i + 1])
           rest == [i \in 1..(Len(traces) - 1) |->
                       IF i < k THEN traces[i] ELSE traces[i + 1]]
       IN  IF t.i + 1 < Len(t.mockHops)
           THEN /\ hops' = hops1
                /\ traces' = [traces EXCEPT ![k].i = t.i + 1]
                /\ UNCHANGED << isTracing, surface, lastToast, lastError,
                                completed >>
           ELSE /\ traces' = rest
                /\ \E fitThrows \in FitOutcomes(t.mockHops) :
                       Finish(t.mockHops, surface, hops1, isTracing, lastToast,
                              fitThrows)
    /\ sawMap' = (mapCurrent # 0)
    /\ UNCHANGED << mapboxToken, mapCurrent, accessToken, currentTokenInput,
                    targetHost, rafQueue, nStarted, input, call >>

Next ==
    \/ \E v \in Tokens : TypeToken(v)
    \/ ClickInitialize
    \/ StyleLoad
    \/ \E k \in 1..MaxMaps : RotateTick(k)
    \/ \E v \in Hosts : TypeTarget(v)
    \/ ClickTrace
    \/ \E k \in 1..MaxTraces : TimerFires(k)

Spec == Init /\ [][Next]_vars

\* ------------------------------------------------- executeTraceroute re-entered

\* executeTraceroute invoked whatever isTracing is: the function itself tests
\* only map.current (line 171); the one guard against a second invocation is
\* the rendered button's disabled attribute (line 254).
InvokeTrace ==
    /\ TraceControlsShown
    /\ Trim(targetHost) # ""
    /\ Len(traces) < MaxTraces
    /\ nStarted < MaxStarts
    /\ executeTraceroute
    /\ UNCHANGED << mapboxToken, mapCurrent, accessToken, currentTokenInput,
                    targetHost, rafQueue, input, call >>

NextReentrant ==
    \/ \E v \in Tokens : TypeToken(v)
    \/ ClickInitialize
    \/ StyleLoad
    \/ \E k \in 1..MaxMaps : RotateTick(k)
    \/ \E v \in Hosts : TypeTarget(v)
    \/ InvokeTrace
    \/ \E k \in 1..MaxTraces : TimerFires(k)

SpecReentrant == Init /\ [][NextReentrant]_vars

\* ------------------------------------- the overlay functions on any hop list

\* A map has been initialized and rendered and its style has loaded.
InitReady ==
    /\ mapboxToken = FALSE
    /\ mapCurrent = 1
    /\ accessToken = "pk.token"
    /\ sawMap = TRUE
    /\ currentTokenInput = "pk.token"
    /\ targetHost = "google.com"
    /\ isTracing = FALSE
    /\ hops = <<>>
    /\ traces = <<>>
    /\ rafQueue = << FALSE >>
    /\ surface = [NewMap(<<>>) EXCEPT !.centerLng = 1, !.styleLoaded = TRUE]
    /\ lastToast = "Map initialized"
    /\ lastError = "none"
    /\ nStarted = 0
    /\ completed = NoCompleted
    /\ call = NoCall

InitDraw ==
    /\ InitReady
    /\ input \in {[mock |-> FALSE, fails |-> FALSE, hops |-> H] : H \in HopSeqs}

\* How many calls of op in a row the call now made is (counted up to 2).
InARow(op) == IF call.op = op /\ call.n >= 1 THEN 2 ELSE 1

\* addNetworkPath(H) called on the surface as it is.
CallAddNetworkPath ==
    /\ traces = <<>>
    /\ surface.fitCalls < MaxStarts
    /\ \E fitThrows \in FitOutcomes(input.hops) :
          LET r == addNetworkPath(mapCurrent, surface, input.hops, fitThrows)
          IN  /\ surface' = r.surface
              /\ lastError' = IF r.error = "none" THEN lastError ELSE r.error
              /\ call' = [op |-> "add", n |-> InARow("add"),
                          threw |-> r.error # "none"]
    /\ UNCHANGED << mapboxToken, mapCurrent, accessToken, sawMap,
                    currentTokenInput, targetHost, isTracing, hops, traces,
                    rafQueue, lastToast, nStarted, completed, input >>

\* clearNetworkPath() called on the surface as it is.
CallClearNetworkPath ==
    /\ traces = <<>>
    /\ surface' = clearNetworkPath(mapCurrent, surface)
    /\ call' = [op |-> "clear", n |-> InARow("clear"), threw |-> FALSE]
    /\ UNCHANGED << mapboxToken, mapCurrent, accessToken, sawMap,
                    currentTokenInput, targetHost, isTracing, hops, traces,
                    rafQueue, lastToast, lastError, nStarted, completed, input >>

\* executeTraceroute() called while no invocation is in flight.
CallExecuteTraceroute ==
    /\ traces = <<>>
    /\ nStarted < MaxStarts
    /\ executeTraceroute
    /\ call' = [op |-> "trace", n |-> InARow("trace"), threw |-> FALSE]
    /\ UNCHANGED << mapboxToken, mapCurrent, accessToken, currentTokenInput,
                    targetHost, rafQueue, input >>

\* The timer of the invocation in flight fires.
CallTimerFires ==
    /\ TimerFires(1)

NextDraw ==
    \/ CallAddNetworkPath
    \/ CallClearNetworkPath
    \/ CallExecuteTraceroute
    \/ CallTimerFires

SpecDraw == InitDraw /\ [][NextDraw]_vars

\* ------------------------------------------------ a Hop Data Source that fails

\* The Hop Data Source throws when called; H is what addNetworkPath is
\* called with directly, to put an overlay on the map before the trace.
InitFailing ==
    /\ InitReady
    /\ input \in {[mock |-> FALSE, fails |-> TRUE, hops |-> H] : H \in HopSeqs}

NextFailing ==
    \/ CallAddNetworkPath
    \/ CallClearNetworkPath
    \/ CallExecuteTraceroute

SpecFailing == InitFailing /\ [][NextFailing]_vars

\* The hop detail panel, lines 283-304: one card per published hop.
Panel ==
    [i \in 1..Len(hops) |->
        [id |-> hops[i].id, latencyClass |-> getLatencyColor(hops[i].latency)]]

\* ------------------------------------------------------------------- claims

\* No path source, no line layer, no hop marker.
OverlayEmpty ==
    /\ ~surface.source.present
    /\ ~surface.layer
    /\ surface.markers = <<>>

\* One source whose line has H's (longitude, latitude) pairs in hop order,
\* one line layer, and one marker per hop of H, at the hop's position.
OverlayShows(H) ==
    /\ surface.source.present
    /\ surface.layer
    /\ Len(surface.source.coordinates) = Len(H)
    /\ \A i \in 1..Len(H) :
          surface.source.coordinates[i] = << H[i].longitude, H[i].latitude >>
    /\ Len(surface.markers) = Len(H)
    /\ \A i \in 1..Len(H) :
          /\ surface.markers[i].lngLat = << H[i].longitude, H[i].latitude >>
          /\ surface.markers[i].popup.id = H[i].id
          /\ surface.markers[i].popup.hostname = H[i].hostname

\* C1 (SpecReentrant): last trace wins.  When executeTraceroute is invoked
\* while an earlier invocation still waits for a timer, no later timer of the
\* earlier invocation changes the published hop list or the overlay.
C1_LastTraceWins ==
    [][\A k \in 1..MaxTraces :
          (k < Len(traces) /\ TimerFires(k)) => UNCHANGED << hops, surface >>]_vars

\* C2 (Spec): at most one trace is in progress.  At most one invocation of
\* executeTraceroute waits for a timer, the status is in-progress while it
\* does, and the published hop list is exactly the hops that invocation has
\* revealed so far: no other reveal loop has appended to it.  While the
\* status is in-progress the Trace Route click cannot be made.
C2_SingleSession ==
    /\ Len(traces) <= 1
    /\ \A k \in 1..Len(traces) :
          /\ isTracing
          /\ hops = SubSeq(traces[k].mockHops, 1, traces[k].i)
    /\ isTracing => ~ENABLED ClickTrace

\* C2 witness: a second trace, started after the first completed, has
\* revealed two hops.
C2_Witness ==
    /\ nStarted = 2
    /\ completed.any
    /\ Len(traces) = 1
    /\ traces[1].i = 2

\* C3 as stated (Spec): in every state the overlay shows the hop list of
\* the most recently completed trace.
C3_OverlayIsLastCompleted ==
    IF completed.any THEN OverlayShows(completed.hops) ELSE OverlayEmpty

\* C3 as amended (Spec): the overlay is empty until the first trace
\* completes and from each trace's start until that trace completes;
\* otherwise it shows exactly the hop list of the most recently completed
\* trace.  It never shows a partial list.
C3_OverlayEmptyOrLastCompleted ==
    IF traces # <<>> \/ ~completed.any
    THEN OverlayEmpty
    ELSE OverlayShows(completed.hops)

\* C3 witness: a later trace is in progress, after an earlier one completed.
C3_Witness ==
    /\ completed.any
    /\ traces # <<>>
    /\ traces[1].i = 1
    /\ traces[1].target # completed.hops[4].hostname

\* C4 (SpecDraw): redraw is idempotent.  After addNetworkPath(H) has been
\* called twice in a row, for a non-empty H, no error was raised and the
\* overlay is one source, one line layer and length(H) markers.
C4_RedrawIdempotent ==
    (call.op = "add" /\ call.n = 2 /\ Len(input.hops) >= 1) =>
        /\ ~call.threw
        /\ OverlayShows(input.hops)

\* C5 (SpecDraw): when addNetworkPath(H) has returned, the map has length(H)
\* markers and the line has length(H) vertices, the i-th being the
\* (longitude, latitude) pair of the i-th hop.
C5_MarkersAndVertices ==
    (call.op = "add" /\ ~call.threw) =>
        LET H == input.hops
        IN  /\ Len(surface.markers) = Len(H)
            /\ surface.source.present
            /\ Len(surface.source.coordinates) = Len(H)
            /\ \A i \in 1..Len(H) :
                  /\ surface.source.coordinates[i][1] = H[i].longitude
                  /\ surface.source.coordinates[i][2] = H[i].latitude

\* C5 witness: addNetworkPath has drawn three hops at three positions.
C5_Witness ==
    /\ call.op = "add"
    /\ ~call.threw
    /\ Len(input.hops) = 3
    /\ Cardinality({input.hops[i].longitude : i \in 1..3}) = 3
    /\ Len(surface.markers) = 3

\* C6 (SpecDraw): an empty hop list draws nothing.  When the hop sequence is
\* empty, no call of addNetworkPath and no trace adds a source, a layer or a
\* marker, issues a bounds-fit or raises an error.
C6_EmptyDrawsNothing ==
    Len(input.hops) = 0 =>
        /\ OverlayEmpty
        /\ surface.fitCalls = 0
        /\ lastError = "none"

\* C7 (Spec): a trace requested while map.current is null is rejected.
\* While the map stays uninitialized no step changes the status, the hop
\* list, the pending timers, the animation frames or the surface; the only
\* toast that can appear is "Map not ready"; and the Trace Route click
\* raises it.
C7_NotReadyRejected ==
    [][(mapCurrent = 0 /\ mapCurrent' = 0) =>
          /\ UNCHANGED << isTracing, hops, traces, rafQueue, surface, nStarted,
                          completed, lastError >>
          /\ lastToast' # lastToast => lastToast' = "Map not ready"
          /\ ClickTrace => lastToast' = "Map not ready"]_vars

\* C7 witness: the click was made on an uninitialized map.
C7_Witness ==
    /\ mapCurrent = 0
    /\ lastToast = "Map not ready"
    /\ ~isTracing
    /\ traces = <<>>

\* C8 as stated (SpecDraw): after addNetworkPath(H), length(H) >= 1, marker
\* 0 has the origin colour, marker length(H)-1 the destination colour and
\* every marker between them the relay colour.
C8_OriginAndDestination ==
    (call.op = "add" /\ ~call.threw /\ Len(input.hops) >= 1) =>
        LET n == Len(input.hops)
        IN  /\ surface.markers[1].background = "#00ff00"
            /\ surface.markers[n].background = "#ff0040"
            /\ \A i \in 2..(n - 1) : surface.markers[i].background = "#00ffff"

\* C8 as amended (SpecDraw): marker 0 has the origin colour; marker
\* length(H)-1 has the destination colour when length(H) >= 2; every marker
\* between them has the relay colour.  A single hop is drawn as the origin.
C8_OriginWins ==
    (call.op = "add" /\ ~call.threw /\ Len(input.hops) >= 1) =>
        LET n == Len(input.hops)
        IN  /\ Len(surface.markers) = n
            /\ surface.markers[1].background = "#00ff00"
            /\ n >= 2 => surface.markers[n].background = "#ff0040"
            /\ \A i \in 2..(n - 1) : surface.markers[i].background = "#00ffff"

\* C8 witness: three hops drawn, so that one marker lies between the ends.
C8_Witness ==
    /\ call.op = "add"
    /\ ~call.threw
    /\ Len(input.hops) = 3
    /\ surface.markers[2].background = "#00ffff"

\* The band the claim gives a latency (in 0.1 ms), and the band each colour
\* and each class stands for.
BandOfLatency(latency) ==
    IF latency < 200 THEN "good"
    ELSE IF latency < 1000 THEN "warning"
    ELSE "error"
BandOfPopupColor(color) ==
    CASE color = "#00ff00" -> "good"
      [] color = "#ffff00" -> "warning"
      [] color = "#ff0040" -> "error"
      [] OTHER -> "unknown"
BandOfClass(class) ==
    CASE class = "text-latency-good" -> "good"
      [] class = "text-latency-warning" -> "warning"
      [] class = "text-latency-error" -> "error"
      [] OTHER -> "unknown"

\* C9 (SpecDraw): latency bands are half-open at 20 and 100 ms.  Every
\* marker popup is coloured, and every card of the detail panel classed, with
\* the band of its hop's latency: good below 20 ms, warning from 20 ms to
\* below 100 ms, error from 100 ms.
C9_LatencyBands ==
    /\ \A i \in 1..Len(surface.markers) :
          BandOfPopupColor(surface.markers[i].popup.color)
              = BandOfLatency(surface.markers[i].popup.latency)
    /\ \A i \in 1..Len(Panel) :
          BandOfClass(Panel[i].latencyClass) = BandOfLatency(hops[i].latency)

\* C9 witness: a completed trace shows hops of 19.9, 20.0 and 100.0 ms on
\* the map and in the panel.
C9_Witness ==
    /\ Len(surface.markers) = 3
    /\ Len(Panel) = 3
    /\ {hops[i].latency : i \in 1..3} = {199, 200, 1000}
    /\ {surface.markers[i].popup.latency : i \in 1..3} = {199, 200, 1000}

\* C10 (Spec): the rotation is suspended during a trace.  While the status
\* is in-progress no step advances the camera centre.
C10_RotationSuspended ==
    [][isTracing => surface'.centerLng = surface.centerLng]_vars

\* C11 (Spec): one bounds-fit per completed trace, and rotation resumes
\* only after it.  The step that ends a trace issues exactly one fitBounds,
\* and a rotation tick advances the camera only when every trace started so
\* far has had its bounds-fit issued.
C11_FitThenRotate ==
    [][/\ (isTracing /\ ~isTracing') =>
              surface'.fitCalls = surface.fitCalls + 1
       /\ (mapCurrent' = mapCurrent
              /\ surface'.centerLng > surface.centerLng) =>
              surface.fitCalls = nStarted]_vars

\* C12 (SpecFailing): a failing Hop Data Source.  The trace request whose
\* hop fetch fails leaves the status idle, leaves the overlay exactly as it
\* was and raises a failure notification.
C12_FailedFetchChangesNothing ==
    [][(input.fails /\ nStarted' = nStarted + 1) =>
          /\ ~isTracing'
          /\ surface' = surface
          /\ lastToast' = "Trace failed"]_vars

\* C13 (Spec): during a trace the published hop list only grows by
\* appending.  It is empty when the status becomes in-progress; while the
\* status is in-progress every change appends the next hop of the fetched
\* sequence, so the list stays a prefix of that sequence; and when the status
\* leaves in-progress the list is the whole fetched sequence, in order.
C13_HopListGrowsByAppending ==
    [][/\ (~isTracing /\ isTracing') => hops' = <<>>
       /\ (isTracing /\ hops' # hops) =>
              /\ Len(traces) = 1
              /\ Len(hops) < Len(traces[1].mockHops)
              /\ hops' = Append(hops, traces[1].mockHops[Len(hops) + 1])
       /\ (isTracing /\ Len(traces) = 1) =>
              hops' = SubSeq(traces[1].mockHops, 1, Len(hops'))
       /\ (isTracing /\ ~isTracing') =>
              /\ Len(traces) = 1
              /\ hops' = traces[1].mockHops]_vars

\* C13 witness: three of the four hops of a trace are published, in order.
C13_Witness ==
    /\ isTracing
    /\ Len(traces) = 1
    /\ Len(hops) = 3
    /\ \A i \in 1..3 : hops[i].id = i

\* OverlayShows for a given surface value.
SurfaceShows(s, H) ==
    /\ s.source.present
    /\ s.layer
    /\ s.source.coordinates =
           [i \in 1..Len(H) |-> << H[i].longitude, H[i].latitude >>]
    /\ Len(s.markers) = Len(H)
    /\ \A i \in 1..Len(H) :
          /\ s.markers[i].lngLat = << H[i].longitude, H[i].latitude >>
          /\ s.markers[i].popup.id = H[i].id

\* C14 (Spec): the order of one trace.  The click that starts a trace
\* publishes no hop: every hop, the first included, is appended by a timer
\* callback of its own.  The synchronizer is invoked once per trace, by the
\* callback that appends the last hop, and draws the full list.  The status
\* leaves in-progress, and the "Traceroute complete" toast is raised, only in
\* a step in which the synchronizer has drawn.
C14_TraceOrder ==
    [][/\ nStarted' # nStarted => (hops' = <<>> /\ traces'[Len(traces')].i = 0)
       /\ Len(hops') > Len(hops) =>
              /\ Len(hops') = Len(hops) + 1
              /\ \E k \in 1..Len(traces) :
                    /\ traces[k].i = Len(hops)
                    /\ TimerFires(k)
       /\ (mapCurrent' = mapCurrent /\ surface'.fitCalls # surface.fitCalls) =>
              /\ surface'.fitCalls = surface.fitCalls + 1
              /\ Len(traces) = 1 /\ traces' = <<>>
              /\ Len(hops) = Len(traces[1].mockHops) - 1
              /\ SurfaceShows(surface', traces[1].mockHops)
       /\ (isTracing /\ ~isTracing') =>
              surface'.fitCalls = surface.fitCalls + 1
       /\ (lastToast' = "Traceroute complete" /\ lastToast' # lastToast) =>
              /\ surface'.fitCalls = surface.fitCalls + 1
              /\ ~isTracing']_vars

\* C14 witness: a trace has run to its end: four hops published, the overlay
\* drawn once, the status cleared, the toast raised.
C14_Witness ==
    /\ nStarted = 1
    /\ traces = <<>>
    /\ Len(hops) = 4
    /\ surface.fitCalls = 1
    /\ ~isTracing
    /\ lastToast = "Traceroute complete"

\* C15 (SpecDraw): starting a trace clears the overlay before any drawing.
\* The step that starts a trace of at least one hop leaves no source, no
\* layer and no marker, whatever was on the map, and raises no error; the overlay stays empty in
\* every step that leaves the trace in flight; a clear step called on its
\* own, with or without a source and a layer on the map, leaves the overlay
\* empty and raises no error.
C15_ClearBeforeDraw ==
    [][/\ (nStarted' = nStarted + 1 /\ traces' # <<>>) =>
              /\ OverlayEmpty'
              /\ lastError' = lastError
       /\ (traces # <<>> /\ traces' # <<>>) => (OverlayEmpty /\ OverlayEmpty')
       /\ (call'.op = "clear" /\ nStarted' = nStarted /\ traces' = <<>>
             /\ traces = <<>>) =>
              /\ OverlayEmpty'
              /\ ~call'.threw
              /\ lastError' = lastError
              /\ OverlayEmpty => surface' = surface]_vars

\* C15 witness: a trace is in flight on a map on which an overlay had been
\* drawn, and the overlay is empty.
C15_Witness ==
    /\ call.op = "trace"
    /\ traces # <<>>
    /\ surface.fitCalls >= 1
    /\ OverlayEmpty

\* C16 (Spec): overlay ownership.  On one map, a step that moves the camera
\* centre leaves the path source, the line layer, the markers, the hop list
\* and the trace status as they were; a step that changes the source, the
\* layer or the markers is the clear step of a starting trace, which leaves
\* the overlay empty, or the draw step of an ending trace, which found it
\* empty.
C16_OverlayOwnership ==
    [][mapCurrent' = mapCurrent =>
          /\ surface'.centerLng # surface.centerLng =>
                 /\ surface' = [surface EXCEPT !.centerLng = surface'.centerLng]
                 /\ hops' = hops
                 /\ isTracing' = isTracing
          /\ (\/ surface'.source # surface.source
              \/ surface'.layer # surface.layer
              \/ surface'.markers # surface.markers) =>
                 \/ nStarted' = nStarted + 1 /\ OverlayEmpty'
                 \/ Len(traces') < Len(traces) /\ OverlayEmpty]_vars

\* C16 witness: the camera has rotated on a map that carries an overlay.
C16_Witness ==
    /\ surface.source.present
    /\ surface.markers # <<>>
    /\ surface.centerLng >= 2
    /\ rafQueue # <<>>

\* ------------------------------------------------------- fair pacing timers

\* A timer set by line 193 fires: the event loop runs every callback whose
\* delay has passed.  Nothing makes the style load (a token the server
\* rejects never gets one), the user click, or the frames come.
SpecFair == Spec /\ WF_vars(\E k \in 1..MaxTraces : TimerFires(k))

\* C17 (SpecFair): every accepted trace finishes.  Whenever the status is
\* in-progress, it is later not in progress, with the "Traceroute complete"
\* toast raised.
C17_EveryTraceFinishes ==
    isTracing ~> (~isTracing /\ lastToast = "Traceroute complete")

\* C18 (Spec): at most one map is ever constructed, and at most one
\* rotation tick is pending at any time.
C18_OneMapOneLoop ==
    /\ mapCurrent <= 1
    /\ Len(rafQueue) <= 1

====
